---------------------------- MODULE Spec2Model ----------------------------
(***************************************************************************)
(* Seat reservation core of the BookMyShow clone (bms-lambda).             *)
(*                                                                         *)
(* The model follows the Python handlers call by call.  Every call to the  *)
(* coordinator (Redis) or to the durable store (Postgres) is one atomic    *)
(* step of the request that makes it; requests of different callers        *)
(* interleave freely between such calls, and time advances between them.   *)
(*                                                                         *)
(* Strings that the code formats and parses are sequences of their         *)
(* colon-separated segments: the user id "u1" is <<"u1">>, the user id     *)
(* "u1:x" is <<"u1","x">>, the lock value "u1:h1" is <<"u1","h1">>.        *)
(***************************************************************************)
EXTENDS Integers, Sequences, FiniteSets, TLC

(***************************************************************************)
(* Program constants                                                       *)
(***************************************************************************)
HOLD_TTL_SECONDS == 300

ORDER_TTL_SECONDS == 300

MAX_SEATS_PER_BOOKING == 10

(***************************************************************************)
(* Bounds of the model                                                     *)
(***************************************************************************)
\* seconds by which one Tick advances the clock
TickSeconds == 200

\* number of Ticks in a behaviour
MaxTicks == 3

\* number of hold ids uuid4 hands out in a behaviour
MaxHolds == 2

\* number of coordinator calls that fail (connection error) in a behaviour
MaxFaults == 1

\* number of requests made in a behaviour
MaxRequests == 2

(***************************************************************************)
(* Inputs                                                                  *)
(***************************************************************************)
\* request slots: each runs one handler invocation at a time
Procs == {"p1", "p2"}

\* values of the x-user-id header: any string; "u1:x" holds a colon
UserIds == {<<"u1">>, <<"u2">>, <<"u1", "x">>}

\* the one show in the shows table, and a well-formed id of no show
TheShow == "s1"

NoShow == "s0"

ShowIds == {TheShow, NoShow}

\* seat ids a caller may name; A5 is permanently unavailable
SeatIds == {"A1", "A2", "A5"}

\* the ids uuid.uuid4() returns, in the order it returns them
HoldIdNames == <<"h1", "h2", "h3", "h4">>

\* ids a caller may pass as holdId (all well-formed UUIDs)
HoldIdInputs == {HoldIdNames[i] : i \in 1..MaxHolds}

\* order ids are strings of hexadecimal characters (UUIDs; validate_uuid
\* lower-cases before it matches, so either case is well-formed): sequences
\* of characters, here the first ten of an id
OrderId1 == <<"a", "1", "b", "2", "c", "3", "d", "4", "e", "5">>

OrderId2 == <<"a", "1", "b", "2", "c", "3", "d", "F", "0", "0">>

\* ids a caller may pass as orderId
OrderIdInputs == {OrderId1, OrderId2}

\* the seatIds lists of requests
SeatLists ==
  {<<>>, <<"A1">>, <<"A1", "A1">>, <<"A1", "A2">>, <<"A2", "A1">>,
   <<"A2", "A5">>}

Range(q) == {q[i] : i \in 1..Len(q)}


(***************************************************************************)
(* State                                                                   *)
(***************************************************************************)
VARIABLES
  now,        \* the clock, in seconds
  seatLock,   \* Redis keys seat_lock:<showId>:<seatId>: <<showId, seatId>> -> [value, exp]
  holds,      \* Redis keys hold:<holdId>: holdId -> [data, exp]
  orders,     \* rows of the orders table: orderId -> row
  events,     \* messages accepted by the SQS queue
  issued,     \* number of hold ids uuid4 has returned
  faults,     \* number of coordinator calls that have failed
  started,    \* number of requests made
  refused,    \* history: the (hold id, order id) a caller was answered 403 on
  failed,     \* history: the hold ids whose create-order insert was answered 500
  proc,       \* the request each slot runs: its position and its locals
  out         \* the response the step just taken returned to its caller, if any

vars ==
  <<now, seatLock, holds, orders, events, issued, faults, started, refused,
    failed,
    proc, out>>

(***************************************************************************)
(* Coordinator (Redis): seat locks                                         *)
(***************************************************************************)
SeatKey(showId, seatId) == <<showId, seatId>>

\* Lua: userId .. ":" .. holdId
LockValue(userId, holdId) == userId \o <<holdId>>

\* Lua: string.match(existing, "^([^:]+)"): the characters before the first
\* colon; nil (here <<>>) when the value starts with a colon
ExistingUserId(value) ==
  IF Len(value) > 0 /\ value[1] # "" THEN <<value[1]>> ELSE <<>>

\* phase 1 of LOCK_SEATS_SCRIPT: the positions of the seats whose lock
\* another user id holds
TakenAt(locks, showId, userId, seats) ==
  {i \in 1..Len(seats) :
     /\ SeatKey(showId, seats[i]) \in DOMAIN locks
     /\ ExistingUserId(locks[SeatKey(showId, seats[i])].value) # userId}

Min(S) == CHOOSE x \in S : \A y \in S : x <= y

\* phase 2 of LOCK_SEATS_SCRIPT: SET key lockValue EX ttl for every seat
SetAll(locks, showId, seats, value, exp) ==
  LET keys == {SeatKey(showId, seats[i]) : i \in 1..Len(seats)}
  IN  [k \in DOMAIN locks \cup keys |->
         IF k \in keys THEN [value |-> value, exp |-> exp] ELSE locks[k]]

\* a locking script that checks and sets seat by seat in one pass, and so
\* leaves the seats before the taken one locked when it reports SEAT_TAKEN
RECURSIVE SinglePassLoop(_, _, _, _, _, _, _)
SinglePassLoop(locks, showId, userId, seats, value, exp, i) ==
  IF i > Len(seats)
  THEN [reply |-> [success |-> TRUE, error |-> "", seat |-> ""], locks |-> locks]
  ELSE IF TakenAt(locks, showId, userId, seats) = {}
          \/ i < Min(TakenAt(locks, showId, userId, seats))
  THEN SinglePassLoop(SetAll(locks, showId, <<seats[i]>>, value, exp),
                      showId, userId, seats, value, exp, i + 1)
  ELSE [reply |-> [success |-> FALSE, error |-> "SEAT_TAKEN", seat |-> seats[i]],
        locks |-> locks]

LockSeatsSinglePass(locks, showId, userId, holdId, seats, ttl, t) ==
  SinglePassLoop(locks, showId, userId, seats, LockValue(userId, holdId),
                 t + ttl, 1)

\* LOCK_SEATS_SCRIPT, run at time t: the reply and the keys afterwards
LockSeatsScript(locks, showId, userId, holdId, seats, ttl, t) ==
  LET taken == TakenAt(locks, showId, userId, seats)
  IN  IF taken # {}
      THEN [reply |-> [success |-> FALSE, error |-> "SEAT_TAKEN",
                       seat |-> seats[Min(taken)]],
            locks |-> locks]
      ELSE [reply |-> [success |-> TRUE, error |-> "", seat |-> ""],
            locks |-> SetAll(locks, showId, seats,
                             LockValue(userId, holdId), t + ttl)]

\* RELEASE_SEATS_SCRIPT: the loop from position i on; released so far
RECURSIVE ReleaseLoop(_, _, _, _, _, _)
ReleaseLoop(locks, showId, userId, seats, i, released) ==
  IF i > Len(seats)
  THEN [released |-> released, locks |-> locks]
  ELSE LET key == SeatKey(showId, seats[i])
       IN  IF key \in DOMAIN locks /\ ExistingUserId(locks[key].value) = userId
           THEN ReleaseLoop([k \in DOMAIN locks \ {key} |-> locks[k]],
                            showId, userId, seats, i + 1,
                            Append(released, seats[i]))
           ELSE ReleaseLoop(locks, showId, userId, seats, i + 1, released)

ReleaseSeatsScript(locks, showId, userId, seats) ==
  ReleaseLoop(locks, showId, userId, seats, 1, <<>>)

\* the reply of a coordinator call that raised (connection error)
RedisError == [success |-> FALSE, error |-> "REDIS_ERROR", seat |-> ""]

(***************************************************************************)
(* Coordinator (Redis): hold records                                       *)
(***************************************************************************)
\* store_hold: SETEX hold:<hold_id> HOLD_TTL_SECONDS json, at time t
StoreHold(hs, hold_data, t) ==
  [h \in DOMAIN hs \cup {hold_data.hold_id} |->
     IF h = hold_data.hold_id
     THEN [data |-> hold_data, exp |-> t + HOLD_TTL_SECONDS]
     ELSE hs[h]]

\* delete_hold: DEL hold:<hold_id>
DeleteHold(hs, holdId) == [h \in DOMAIN hs \ {holdId} |-> hs[h]]

\* the locals of a request that has loaded no hold
NoHoldData ==
  [hold_id |-> "", show_id |-> "", user_id |-> <<>>, seat_ids |-> <<>>,
   quantity |-> 0, status |-> "", created_at |-> 0, expires_at |-> 0]

\* the methods class RedisService defines
RedisServiceMethods ==
  {"ping", "lock_seats_atomic", "release_seats_atomic",
   "get_locked_seats_for_show", "store_hold", "get_hold", "delete_hold",
   "cache_seat_availability", "get_cached_seat_availability",
   "set_rate_limit", "cleanup_expired_holds"}

(***************************************************************************)
(* Durable store (Postgres)                                                *)
(***************************************************************************)
\* the shows table: one show, its start_time and its price
ShowStart == 600

ShowPrice == 150

GetShowById(showId) ==
  IF showId = TheShow
  THEN [found |-> TRUE, show_id |-> TheShow, start_time |-> ShowStart,
        price |-> ShowPrice]
  ELSE [found |-> FALSE, show_id |-> "", start_time |-> 0, price |-> 0]

\* the seats of every order of the show, whatever its status
ConfirmedSeatsAnyStatus(os, showId) ==
  UNION {Range(os[o].seat_ids) : o \in {x \in DOMAIN os : os[x].show_id = showId}}

\* get_confirmed_seats_for_show
ConfirmedSeats(os, showId) ==
  UNION {Range(os[o].seat_ids) :
           o \in {x \in DOMAIN os : os[x].show_id = showId
                                    /\ os[x].status = "CONFIRMED"}}

\* get_permanently_unavailable_seats
PermanentlyUnavailable(showId) == {"A5", "B10", "C8"}

\* the named parameters %(name)s of the INSERT in db_service.create_order
OrderInsertParams ==
  {"order_id", "hold_id", "user_id", "show_id", "movie_id", "theatre_id",
   "seat_ids", "customer_name", "customer_email", "customer_phone",
   "amount", "status", "created_at", "expires_at"}

\* db_service.create_order: cursor.execute(query, order_data) looks every
\* named parameter up in order_data and raises KeyError for a missing one,
\* before anything is sent to the database
DbCreateOrder(os, order_data) ==
  IF OrderInsertParams \subseteq DOMAIN order_data
  THEN [raised |-> FALSE,
        orders |-> [o \in DOMAIN os \cup {order_data.order_id} |->
                      IF o = order_data.order_id
                      THEN [order_id |-> order_data.order_id,
                            hold_id |-> order_data.hold_id,
                            user_id |-> order_data.user_id,
                            show_id |-> order_data.show_id,
                            seat_ids |-> order_data.seat_ids,
                            amount |-> order_data.amount,
                            status |-> order_data.status,
                            ticket_code |-> <<>>,
                            created_at |-> order_data.created_at,
                            expires_at |-> order_data.expires_at]
                      ELSE os[o]]]
  ELSE [raised |-> TRUE, orders |-> os]

(***************************************************************************)
(* SQS: sqs_service                                                        *)
(***************************************************************************)
\* a table that names order.created for every operation
EventTypeOrderCreated(op) == "order.created"

\* send_hold_created_event, send_hold_released_event,
\* send_order_created_event, send_order_confirmed_event, as the handlers of
\* the four operations call them
EventType(op) ==
  CASE op = "create_hold" -> "hold.created"
    [] op = "release_hold" -> "hold.released"
    [] op = "create_order" -> "order.created"
    [] op = "confirm_payment" -> "order.confirmed"

\* a send_event without its except clause: the failure of send_message
\* reaches the caller
SendEventRaising(evs, e, delivered) ==
  [events |-> IF delivered THEN evs \cup {e} ELSE evs,
   sent |-> IF delivered THEN "sent" ELSE "failed",
   raised |-> ~delivered]

\* send_event: send_message puts the message on the queue, or fails; the
\* except clause logs the failure and returns False, nothing is raised
SendEvent(evs, e, delivered) ==
  [events |-> IF delivered THEN evs \cup {e} ELSE evs,
   sent |-> IF delivered THEN "sent" ELSE "failed",
   raised |-> FALSE]

(***************************************************************************)
(* Requests                                                                *)
(***************************************************************************)
Idle ==
  [pc |-> "idle", op |-> "", user |-> <<>>, show |-> "", seats |-> <<>>,
   quantity |-> 0, hold |-> "", hd |-> NoHoldData, released |-> <<>>,
   order |-> <<>>, retry |-> FALSE, sent |-> "",
   view |-> [unavailableSeatIds |-> {}, heldSeatIds |-> {}]]

NoOut == [req |-> Idle, code |-> 0, msg |-> "", seat |-> ""]

\* create_success_response / create_error_response: the request with locals
\* r is answered
Response(r, code, msg, seat) ==
  [req |-> r, code |-> code, msg |-> msg, seat |-> seat]

\* a slot takes a new request when it runs none
Free(p) == proc[p].pc = "idle" /\ started < MaxRequests

\* a request that is answered before it has called the coordinator
Fresh(op) == [Idle EXCEPT !.op = op]

\* slot p goes on with locals r
Goes(p, r) ==
  /\ proc' = [proc EXCEPT ![p] = r]
  /\ started' = IF proc[p].pc = "idle" THEN started + 1 ELSE started
  /\ out' = NoOut
  /\ UNCHANGED <<refused, failed>>

\* the request of slot p returns, its locals being r
Returns(p, r, code, msg, seat) ==
  /\ proc' = [proc EXCEPT ![p] = Idle]
  /\ started' = IF proc[p].pc = "idle" THEN started + 1 ELSE started
  /\ out' = Response(r, code, msg, seat)
  /\ refused' = IF code = 403
                THEN refused \cup {[hold |-> r.hold, order |-> r.order]}
                ELSE refused
  /\ failed' = IF r.op = "create_order" /\ r.pc = "co_insert" /\ code = 500
               THEN failed \cup {r.hold}
               ELSE failed

\* a coordinator call may raise (the connection fails and the command is not
\* run) while the budget of failures lasts
MayFail == faults < MaxFaults

Init ==
  /\ now = 0
  /\ seatLock = <<>>
  /\ holds = <<>>
  /\ orders = <<>>
  /\ events = {}
  /\ issued = 0
  /\ faults = 0
  /\ started = 0
  /\ refused = {}
  /\ failed = {}
  /\ proc = [p \in Procs |-> Idle]
  /\ out = NoOut

(***************************************************************************)
(* POST /holds: holds.create_hold                                          *)
(***************************************************************************)
\* BMSValidator.validate_hold_request: the message of the ValidationError
\* it raises, "" when it raises none
ValidateHoldRequest(showId, seats, quantity) ==
  IF Len(seats) = 0 THEN "seatIds must be a non-empty list"
  ELSE IF quantity # Len(seats) THEN "Quantity must match number of seat IDs"
  ELSE IF quantity > 10 THEN "Cannot book more than 10 seats"
  ELSE ""

\* the comparison without the equality: a show starting this instant is open
StartedStrictlyBefore(show, t) == t > show.start_time

\* lines 77-80: datetime.now(timezone.utc) >= show_time
ShowStarted(show, t) == t >= show.start_time

\* lines 50-80: parse, validate, look the show up, compare its start time
CreateHoldBegin(p, u, showId, seats, quantity) ==
  /\ Free(p)
  /\ LET invalid == ValidateHoldRequest(showId, seats, quantity)
         show == GetShowById(showId)
         req == [Idle EXCEPT !.op = "create_hold", !.user = u, !.show = showId,
                             !.seats = seats, !.quantity = quantity]
         new == [req EXCEPT !.user = <<>>]
     IN  IF invalid # "" THEN Returns(p, new, 400, invalid, "")
         ELSE IF ~show.found THEN Returns(p, new, 404, "Show not found", "")
         ELSE IF ShowStarted(show, now)
         THEN Returns(p, new, 400,
                      "Cannot book seats for a show that has already started", "")
         ELSE Goes(p, [req EXCEPT !.pc = "ch_seats"])
  /\ UNCHANGED <<now, seatLock, holds, orders, events, issued, faults>>

\* lines 82-98: permanently unavailable and confirmed seats
CreateHoldCheckSeats(p) ==
  /\ proc[p].pc = "ch_seats"
  /\ LET confirmed == ConfirmedSeats(orders, proc[p].show)
         all_unavailable == PermanentlyUnavailable(proc[p].show) \cup confirmed
         unavailable_seats ==
           SelectSeq(proc[p].seats, LAMBDA s : s \in all_unavailable)
         booked_seats == SelectSeq(unavailable_seats, LAMBDA s : s \in confirmed)
     IN  IF Len(unavailable_seats) > 0
         THEN IF Len(booked_seats) > 0
              THEN Returns(p, proc[p], 409, "Seats already booked", booked_seats[1])
              ELSE Returns(p, proc[p], 400, "Seats are unavailable",
                           unavailable_seats[1])
         ELSE Goes(p, [proc[p] EXCEPT !.pc = "ch_lock"])
  /\ UNCHANGED <<now, seatLock, holds, orders, events, issued, faults>>

\* lines 100-119: uuid4, lock_seats_atomic.  An id whose lock call fails is
\* never stored or returned, so only a successful call uses an id up.  The
\* 409 message names the seat of the reply; here it is the field seat.
CreateHoldLock(p) ==
  /\ proc[p].pc = "ch_lock"
  /\ \/ /\ MayFail
        /\ faults' = faults + 1
        /\ Returns(p, proc[p], 500,
                   "Failed to reserve seats. Please try again.", "")
        /\ UNCHANGED <<seatLock, issued>>
     \/ /\ issued < Len(HoldIdNames)
        /\ LET hold_id == HoldIdNames[issued + 1]
               r == LockSeatsScript(seatLock, proc[p].show, proc[p].user, hold_id,
                                    proc[p].seats, HOLD_TTL_SECONDS, now)
           IN  IF r.reply.success
               THEN /\ issued < MaxHolds
                    /\ issued' = issued + 1
                    /\ seatLock' = r.locks
                    /\ Goes(p, [proc[p] EXCEPT !.pc = "ch_store", !.hold = hold_id])
               ELSE /\ seatLock' = r.locks
                    /\ Returns(p, proc[p], 409, "Seat is no longer available",
                               r.reply.seat)
                    /\ UNCHANGED issued
        /\ UNCHANGED faults
  /\ UNCHANGED <<now, holds, orders, events>>

\* lines 121-134: the hold record
HoldData(r, t) ==
  [hold_id |-> r.hold, show_id |-> r.show, user_id |-> r.user,
   seat_ids |-> r.seats, quantity |-> r.quantity, status |-> "HELD",
   created_at |-> t, expires_at |-> t + HOLD_TTL_SECONDS]

\* lines 136-186: store_hold, then redis_service.delete_key, which class
\* RedisService does not define: the AttributeError reaches the handler's
\* except clause, which answers 500
CreateHoldStore(p) ==
  /\ proc[p].pc = "ch_store"
  /\ \/ /\ MayFail
        /\ faults' = faults + 1
        /\ Goes(p, [proc[p] EXCEPT !.pc = "ch_comp"])
        /\ UNCHANGED <<holds, events>>
     \/ /\ holds' = StoreHold(holds, HoldData(proc[p], now), now)
        /\ LET r == [proc[p] EXCEPT !.hd = HoldData(proc[p], now)]
           IN  IF "delete_key" \in RedisServiceMethods
               THEN \E delivered \in BOOLEAN :
                      LET s == SendEvent(events, <<EventType(r.op), r.hold>>,
                                         delivered)
                      IN  /\ events' = s.events
                          /\ Returns(p, [r EXCEPT !.sent = s.sent], 200,
                                     "HELD", "")
               ELSE /\ Returns(p, r, 500, "Failed to create hold", "")
                    /\ UNCHANGED events
        /\ UNCHANGED faults
  /\ UNCHANGED <<now, seatLock, orders, issued>>

\* lines 138-141: the compensation of a failed store_hold
CreateHoldCompensate(p) ==
  /\ proc[p].pc = "ch_comp"
  /\ \/ /\ MayFail
        /\ faults' = faults + 1
        /\ UNCHANGED seatLock
     \/ /\ seatLock' = ReleaseSeatsScript(seatLock, proc[p].show, proc[p].user,
                                          proc[p].seats).locks
        /\ UNCHANGED faults
  /\ Returns(p, proc[p], 500, "Failed to create hold", "")
  /\ UNCHANGED <<now, holds, orders, events, issued>>

(***************************************************************************)
(* GET /shows/{showId}/seatmap: seats.get_seatmap.  The other definition   *)
(* of get_seatmap, in seats_backup.py, is in a file that is no Python      *)
(* module (its quotes are written \"), so seats.py is the one that runs.   *)
(***************************************************************************)
\* seats.py line 75: confirmed_seats = []
SeatmapConfirmedSeats(showId) == <<>>

\* seats.py line 78: locked_seats = []
SeatmapLockedSeats(showId) == <<>>

\* seats.py lines 59-98: validate, get_show_by_id, compose
GetSeatmap(p, showId) ==
  /\ Free(p)
  /\ LET req == [Idle EXCEPT !.op = "get_seatmap", !.show = showId]
         show == GetShowById(showId)
         confirmed_seats == SeatmapConfirmedSeats(showId)
         locked_seats == SeatmapLockedSeats(showId)
         unavailable_seats == Range(confirmed_seats \o locked_seats)
     IN  IF ~show.found
         THEN Returns(p, req, 404, "Show not found", "")
         ELSE Returns(p, [req EXCEPT !.view =
                            [unavailableSeatIds |-> unavailable_seats,
                             heldSeatIds |-> Range(locked_seats)]],
                      200, "", "")
  /\ UNCHANGED <<now, seatLock, holds, orders, events, issued, faults>>

(***************************************************************************)
(* GET /holds/{holdId}: holds.get_hold                                     *)
(***************************************************************************)
\* a view that reports the stored status whatever the time
StoredStatus(hold_data, t) == hold_data.status

\* lines 204-208: is_expired and effective_status
EffectiveStatus(hold_data, t) ==
  IF t > hold_data.expires_at THEN "EXPIRED" ELSE hold_data.status

\* lines 188-226: get_hold, ownership, the effective status
GetHold(p, u, holdId) ==
  /\ Free(p)
  /\ LET req == [Idle EXCEPT !.op = "get_hold", !.user = u, !.hold = holdId]
     IN  \/ /\ MayFail
            /\ faults' = faults + 1
            /\ Returns(p, Fresh(req.op), 404, "Hold not found or expired", "")
         \/ /\ UNCHANGED faults
            /\ IF holdId \notin DOMAIN holds
               THEN Returns(p, Fresh(req.op), 404, "Hold not found or expired", "")
               ELSE IF holds[holdId].data.user_id # u
               THEN Returns(p, req, 403, "Unauthorized", "")
               ELSE Returns(p, [req EXCEPT !.hd = holds[holdId].data], 200,
                            EffectiveStatus(holds[holdId].data, now), "")
  /\ UNCHANGED <<now, seatLock, holds, orders, events, issued>>

(***************************************************************************)
(* POST /holds/{holdId}/release: holds.release_hold                        *)
(***************************************************************************)

\* the status compared in the wrong case: no stored record matches
ReleasedInLowerCase(hold_data) == hold_data.status = "released"

\* lines 244-246: hold_data.get('status') == 'RELEASED'
AlreadyReleased(hold_data) == hold_data.status = "RELEASED"

\* lines 228-255: get_hold, ownership, status, expiry
ReleaseHoldBegin(p, u, holdId) ==
  /\ Free(p)
  /\ LET req == [Idle EXCEPT !.op = "release_hold", !.user = u, !.hold = holdId]
     IN  \/ /\ MayFail
            /\ faults' = faults + 1
            /\ Returns(p, req, 404, "Hold not found or expired", "")
         \/ /\ UNCHANGED faults
            /\ IF holdId \notin DOMAIN holds
               THEN Returns(p, req, 404, "Hold not found or expired", "")
               ELSE IF holds[holdId].data.user_id # u
               THEN Returns(p, req, 403, "Unauthorized", "")
               ELSE IF AlreadyReleased(holds[holdId].data)
               THEN Returns(p, req, 400, "Hold is already released", "")
               ELSE IF now > holds[holdId].data.expires_at
               THEN Returns(p, req, 400, "Hold has already expired", "")
               ELSE Goes(p, [req EXCEPT !.pc = "rh_release",
                                        !.hd = holds[holdId].data,
                                        !.show = holds[holdId].data.show_id,
                                        !.seats = holds[holdId].data.seat_ids])
  /\ UNCHANGED <<now, seatLock, holds, orders, events, issued>>

\* lines 257-264: release_seats_atomic
ReleaseHoldRelease(p) ==
  /\ proc[p].pc = "rh_release"
  /\ \/ /\ MayFail
        /\ faults' = faults + 1
        /\ Returns(p, proc[p], 500, "Failed to release seats", "")
        /\ UNCHANGED seatLock
     \/ /\ LET r == ReleaseSeatsScript(seatLock, proc[p].show, proc[p].user,
                                       proc[p].seats)
           IN  /\ seatLock' = r.locks
               /\ Goes(p, [proc[p] EXCEPT !.pc = "rh_store",
                                          !.released = r.released])
        /\ UNCHANGED faults
  /\ UNCHANGED <<now, holds, orders, events, issued>>

\* lines 266-307: store_hold of the RELEASED record (its result is not
\* looked at), then redis_service.delete_key, which does not exist
ReleaseHoldStore(p) ==
  /\ proc[p].pc = "rh_store"
  /\ LET r == [proc[p] EXCEPT !.hd.status = "RELEASED"]
     IN  /\ \/ /\ MayFail
               /\ faults' = faults + 1
               /\ UNCHANGED holds
            \/ /\ holds' = StoreHold(holds, r.hd, now)
               /\ UNCHANGED faults
         /\ IF "delete_key" \in RedisServiceMethods
            THEN \E delivered \in BOOLEAN :
                   LET s == SendEvent(events, <<EventType(r.op), r.hold>>,
                                      delivered)
                   IN  /\ events' = s.events
                       /\ Returns(p, [r EXCEPT !.sent = s.sent], 200,
                                  "RELEASED", "")
            ELSE /\ Returns(p, r, 500, "Failed to release hold", "")
                 /\ UNCHANGED events
  /\ UNCHANGED <<now, seatLock, orders, issued>>

(***************************************************************************)
(* POST /orders: orders.create_order                                       *)
(***************************************************************************)
\* the checks with the status looked at before the owner
CreateOrderChecksStatusFirst(hs, u, holdId, t) ==
  IF holdId \notin DOMAIN hs
  THEN [code |-> 404, msg |-> "Hold not found or expired"]
  ELSE IF hs[holdId].data.status # "HELD"
  THEN [code |-> 400, msg |-> "Cannot create order from hold"]
  ELSE IF hs[holdId].data.user_id # u
  THEN [code |-> 403, msg |-> "Unauthorized"]
  ELSE IF t > hs[holdId].data.expires_at
  THEN [code |-> 400, msg |-> "Hold has expired"]
  ELSE [code |-> 0, msg |-> ""]

\* lines 71-87: the hold is there, is the caller's, is HELD, has not
\* expired; code 0 when it passes
CreateOrderChecks(hs, u, holdId, t) ==
  IF holdId \notin DOMAIN hs
  THEN [code |-> 404, msg |-> "Hold not found or expired"]
  ELSE IF hs[holdId].data.user_id # u
  THEN [code |-> 403, msg |-> "Unauthorized"]
  ELSE IF hs[holdId].data.status # "HELD"
  THEN [code |-> 400, msg |-> "Cannot create order from hold"]
  ELSE IF t > hs[holdId].data.expires_at
  THEN [code |-> 400, msg |-> "Hold has expired"]
  ELSE [code |-> 0, msg |-> ""]

\* lines 50-93: get_hold, ownership, status, expiry, get_show_by_id
CreateOrderBegin(p, u, holdId) ==
  /\ Free(p)
  /\ LET req == [Idle EXCEPT !.op = "create_order", !.user = u, !.hold = holdId]
         c == CreateOrderChecks(holds, u, holdId, now)
     IN  \/ /\ MayFail
            /\ faults' = faults + 1
            /\ Returns(p, req, 404, "Hold not found or expired", "")
         \/ /\ UNCHANGED faults
            /\ IF c.code # 0
               THEN Returns(p, req, c.code, c.msg, "")
               ELSE IF ~GetShowById(holds[holdId].data.show_id).found
               THEN Returns(p, req, 404, "Show not found", "")
               ELSE Goes(p, [req EXCEPT !.pc = "co_insert",
                                        !.retry = holdId \in failed,
                                        !.hd = holds[holdId].data,
                                        !.show = holds[holdId].data.show_id,
                                        !.seats = holds[holdId].data.seat_ids])
  /\ UNCHANGED <<now, seatLock, holds, orders, events, issued>>

\* lines 95-119: the dictionary handed to db_service.create_order
OrderData(r, order_id, t) ==
  [order_id |-> order_id, user_id |-> r.user, show_id |-> r.show,
   seat_ids |-> r.seats, customer_name |-> "name",
   customer_email |-> "email", customer_phone |-> "phone",
   amount |-> Len(r.seats) * GetShowById(r.show).price,
   status |-> "PAYMENT_PENDING", created_at |-> t,
   expires_at |-> t + ORDER_TTL_SECONDS]

\* the Python types of the values of order_data (lines 107-119): now and
\* order_expires_at are datetime objects
OrderDataTypes ==
  [order_id |-> "str", user_id |-> "str", show_id |-> "str",
   seat_ids |-> "list", customer_name |-> "str", customer_email |-> "str",
   customer_phone |-> "str", amount |-> "float", status |-> "str",
   created_at |-> "datetime", expires_at |-> "datetime"]

\* the types json.dumps encodes without a default function
JsonTypes == {"str", "int", "float", "bool", "list", "dict", "NoneType"}

\* a logger whose json.dumps is given default=str: it encodes everything
LoggerErrorWithDefault(extra) == FALSE

\* BMSLogger.error: json.dumps(log_data), log_data holding the extra
\* values, raises TypeError for a value it cannot encode
LoggerErrorRaises(extra) == \E k \in DOMAIN extra : extra[k] \notin JsonTypes

\* lines 121-195: the insert; when it raises, the except clause first logs
\* the error with order_data as extra, and stores the hold record again
\* (its result is not looked at) only if that call returns; an exception of
\* the logging call is caught by the outer except clause.  Both answer 500
CreateOrderInsert(p) ==
  /\ proc[p].pc = "co_insert"
  /\ LET order_data == OrderData(proc[p], "o1", now)
         r == DbCreateOrder(orders, order_data)
     IN  IF r.raised
         THEN /\ IF LoggerErrorRaises(OrderDataTypes)
                 THEN UNCHANGED <<holds, faults>>
                 ELSE \/ /\ MayFail
                         /\ faults' = faults + 1
                         /\ UNCHANGED holds
                      \/ /\ holds' = StoreHold(holds, proc[p].hd, now)
                         /\ UNCHANGED faults
              /\ Returns(p, proc[p], 500, "Failed to create order", "")
              /\ UNCHANGED <<orders, events>>
         ELSE /\ orders' = r.orders
              /\ holds' = DeleteHold(holds, proc[p].hold)
              /\ \E delivered \in BOOLEAN :
                   LET s == SendEvent(events, <<EventType(proc[p].op),
                                                order_data.order_id>>,
                                      delivered)
                   IN  /\ events' = s.events
                       /\ Returns(p, [proc[p] EXCEPT !.sent = s.sent], 200,
                                  "PAYMENT_PENDING", "")
              /\ UNCHANGED faults
  /\ UNCHANGED <<now, seatLock, issued>>

(***************************************************************************)
(* POST /orders/{orderId}/confirm-payment: orders.confirm_payment          *)
(***************************************************************************)
\* an UPDATE without its WHERE clause: every row is confirmed with the code
DbConfirmEveryRow(os, orderId, ticket_code) ==
  [o \in DOMAIN os |->
     [os[o] EXCEPT !.status = "CONFIRMED", !.ticket_code = ticket_code]]

\* an UPDATE that sets the status and leaves ticket_code out
DbConfirmWithoutCode(os, orderId, ticket_code) ==
  [o \in DOMAIN os |->
     IF o = orderId /\ os[o].status = "PAYMENT_PENDING"
     THEN [os[o] EXCEPT !.status = "CONFIRMED"]
     ELSE os[o]]

\* db_service.confirm_order_payment: UPDATE ... WHERE order_id = %s AND
\* status = 'PAYMENT_PENDING'
DbConfirmOrderPayment(os, orderId, ticket_code) ==
  [o \in DOMAIN os |->
     IF o = orderId /\ os[o].status = "PAYMENT_PENDING"
     THEN [os[o] EXCEPT !.status = "CONFIRMED", !.ticket_code = ticket_code]
     ELSE os[o]]

\* str.upper() on a hexadecimal character
Upper(c) ==
  CASE c = "a" -> "A" [] c = "b" -> "B" [] c = "c" -> "C"
    [] c = "d" -> "D" [] c = "e" -> "E" [] c = "f" -> "F" [] OTHER -> c

\* line 275: f"BMS{order_id[:8].upper()}"
TicketCode(order_id) ==
  <<"B", "M", "S">> \o [i \in 1..Min({8, Len(order_id)}) |-> Upper(order_id[i])]

\* lines 249-272: get_order_by_id, ownership, status, expiry
ConfirmPaymentBegin(p, u, orderId) ==
  /\ Free(p)
  /\ LET req == [Idle EXCEPT !.op = "confirm_payment", !.user = u,
                             !.order = orderId]
     IN  IF orderId \notin DOMAIN orders
         THEN Returns(p, req, 404, "Order not found", "")
         ELSE IF orders[orderId].user_id # u
         THEN Returns(p, req, 403, "Unauthorized", "")
         ELSE IF orders[orderId].status # "PAYMENT_PENDING"
         THEN Returns(p, req, 400, "Cannot confirm payment", "")
         ELSE IF now > orders[orderId].expires_at
         THEN Returns(p, req, 400, "Order has expired", "")
         ELSE Goes(p, [req EXCEPT !.pc = "cp_update",
                                  !.show = orders[orderId].show_id,
                                  !.seats = orders[orderId].seat_ids])
  /\ UNCHANGED <<now, seatLock, holds, orders, events, issued, faults>>

\* lines 274-281: the conditional update; 500 when it changed no row
ConfirmPaymentUpdate(p) ==
  /\ proc[p].pc = "cp_update"
  /\ LET success == orders[proc[p].order].status = "PAYMENT_PENDING"
     IN  /\ orders' = DbConfirmOrderPayment(orders, proc[p].order,
                                            TicketCode(proc[p].order))
         /\ IF success
            THEN Goes(p, [proc[p] EXCEPT !.pc = "cp_release"])
            ELSE Returns(p, proc[p], 500, "Failed to confirm payment", "")
  /\ UNCHANGED <<now, seatLock, holds, events, issued, faults>>

\* lines 309-331: send_order_confirmed_event (its result is not looked at)
\* and the answer; an exception goes to the except clause, which answers 500
ConfirmPaymentSend(p, r) ==
  \E delivered \in BOOLEAN :
    LET s == SendEvent(events, <<EventType(r.op), r.order>>, delivered)
        done == [r EXCEPT !.sent = s.sent]
    IN  /\ events' = s.events
        /\ IF s.raised
           THEN Returns(p, done, 500, "Failed to confirm payment", "")
           ELSE Returns(p, done, 200, "CONFIRMED", "")

\* lines 283-331: release_seats_atomic (its result is not looked at), then
\* the DEL of the seat map key on the bare client, which raises when the
\* coordinator fails and takes the request to the except clause, then the
\* event
ConfirmPaymentRelease(p) ==
  /\ proc[p].pc = "cp_release"
  /\ LET r == ReleaseSeatsScript(seatLock, proc[p].show, proc[p].user,
                                 proc[p].seats)
         done == [proc[p] EXCEPT !.released = r.released]
     IN  \/ /\ seatLock' = r.locks
            /\ ConfirmPaymentSend(p, done)
            /\ UNCHANGED faults
         \/ /\ MayFail
            /\ faults' = faults + 1
            /\ UNCHANGED seatLock
            /\ ConfirmPaymentSend(p, proc[p])
         \/ /\ MayFail
            /\ faults' = faults + 1
            /\ seatLock' = r.locks
            /\ Returns(p, done, 500, "Failed to confirm payment", "")
            /\ UNCHANGED events
  /\ UNCHANGED <<now, holds, orders, issued>>

(***************************************************************************)
(* Time: Redis drops a key once its TTL has run out                        *)
(***************************************************************************)
Live(keys, t) == [k \in {x \in DOMAIN keys : keys[x].exp > t} |-> keys[k]]

Tick ==
  /\ now + TickSeconds <= MaxTicks * TickSeconds
  /\ now' = now + TickSeconds
  /\ seatLock' = Live(seatLock, now')
  /\ holds' = Live(holds, now')
  /\ out' = NoOut
  /\ UNCHANGED <<orders, events, issued, faults, started, refused, failed, proc>>

(***************************************************************************)
(* The system                                                              *)
(***************************************************************************)
Next ==
  \/ \E p \in Procs, u \in UserIds, showId \in ShowIds, seats \in SeatLists,
        d \in {0, 1} : CreateHoldBegin(p, u, showId, seats, Len(seats) + d)
  \/ \E p \in Procs : CreateHoldCheckSeats(p)
  \/ \E p \in Procs : CreateHoldLock(p)
  \/ \E p \in Procs : CreateHoldStore(p)
  \/ \E p \in Procs : CreateHoldCompensate(p)
  \/ \E p \in Procs, showId \in ShowIds : GetSeatmap(p, showId)
  \/ \E p \in Procs, u \in UserIds, h \in HoldIdInputs : GetHold(p, u, h)
  \/ \E p \in Procs, u \in UserIds, h \in HoldIdInputs : ReleaseHoldBegin(p, u, h)
  \/ \E p \in Procs : ReleaseHoldRelease(p)
  \/ \E p \in Procs : ReleaseHoldStore(p)
  \/ \E p \in Procs, u \in UserIds, h \in HoldIdInputs : CreateOrderBegin(p, u, h)
  \/ \E p \in Procs : CreateOrderInsert(p)
  \/ \E p \in Procs, u \in UserIds, o \in OrderIdInputs :
        ConfirmPaymentBegin(p, u, o)
  \/ Tick

Spec == Init /\ [][Next]_vars

(***************************************************************************)
(* The system on an orders table that holds rows.  No request gets a row   *)
(* into the table (the INSERT of db_service.create_order raises), so the   *)
(* rest of confirm_payment runs only on rows that are in the table when    *)
(* the service starts: rows as that INSERT writes them.                    *)
(***************************************************************************)
\* the row the INSERT of db_service.create_order writes
OrderRow(order_id, user_id, seat_ids, expires_at) ==
  [order_id |-> order_id, hold_id |-> "h0", user_id |-> user_id,
   show_id |-> TheShow, seat_ids |-> seat_ids,
   amount |-> Len(seat_ids) * ShowPrice, status |-> "PAYMENT_PENDING",
   ticket_code |-> <<>>, created_at |-> expires_at - ORDER_TTL_SECONDS,
   expires_at |-> expires_at]

\* the tables the service may start on: one or two PAYMENT_PENDING orders
\* that expire one Tick or ORDER_TTL_SECONDS after the start
OrderTables ==
  {(OrderId1 :> OrderRow(OrderId1, u, <<"A1">>, e)) :
     u \in UserIds, e \in {TickSeconds, ORDER_TTL_SECONDS}}
  \cup
  {(OrderId1 :> OrderRow(OrderId1, <<"u1">>, <<"A1">>, ORDER_TTL_SECONDS))
     @@ (OrderId2 :> OrderRow(OrderId2, <<"u2">>, <<"A2">>, ORDER_TTL_SECONDS))}

InitOrders ==
  /\ now = 0
  /\ seatLock = <<>>
  /\ holds = <<>>
  /\ orders \in OrderTables
  /\ events = {}
  /\ issued = 0
  /\ faults = 0
  /\ started = 0
  /\ refused = {}
  /\ failed = {}
  /\ proc = [p \in Procs |-> Idle]
  /\ out = NoOut

NextOrders ==
  \/ Next
  \/ \E p \in Procs : ConfirmPaymentUpdate(p)
  \/ \E p \in Procs : ConfirmPaymentRelease(p)

SpecOrders == InitOrders /\ [][NextOrders]_vars

(***************************************************************************)
(* Properties                                                              *)
(***************************************************************************)
\* the seats of a sequence that are in a set
Overlap(a, b) == Range(a) \cap Range(b)

\* the user id a lock value was built from: all of it but the hold id
LockOwner(value) == SubSeq(value, 1, Len(value) - 1)

\* no request ever gets a row into the orders table
NoOrderRow == orders = <<>>

\* C1: no double booking: any two distinct CONFIRMED orders of the same show
\* have disjoint seat lists
C1_NoDoubleBooking ==
  \A a, b \in DOMAIN orders :
    (a # b /\ orders[a].status = "CONFIRMED" /\ orders[b].status = "CONFIRMED"
     /\ orders[a].show_id = orders[b].show_id)
    => Overlap(orders[a].seat_ids, orders[b].seat_ids) = {}

\* C2: no seat is at once in a CONFIRMED order and under a live lock of a
\* user other than the order's owner
C2_ConfirmedNotLockedByOther ==
  \A o \in DOMAIN orders :
    orders[o].status = "CONFIRMED"
    => \A s \in Range(orders[o].seat_ids) :
         SeatKey(orders[o].show_id, s) \in DOMAIN seatLock
         => LockOwner(seatLock[SeatKey(orders[o].show_id, s)].value)
              = orders[o].user_id

\* C3: contention: when a create-hold that has locked its seats and stored
\* its hold is answered while a create-hold of a different user for
\* overlapping seats of the same show is in flight, the answer is the success
\* with status HELD
C3_ContentionWinnerHeld ==
  (/\ out.req.op = "create_hold"
   /\ out.req.hd.status = "HELD"
   /\ \E q \in Procs :
        /\ proc[q].op = "create_hold"
        /\ proc[q].user # out.req.user
        /\ proc[q].show = out.req.show
        /\ Overlap(proc[q].seats, out.req.seats) # {})
  => out.code = 200 /\ out.msg = "HELD"

\* C4: acquire is all-or-nothing: a step in which the lock call of a
\* create-hold reports a failure, conflict or transient, leaves every
\* seat_lock key as it was
C4_AcquireAllOrNothing ==
  [][\A p \in Procs :
       (proc[p].pc = "ch_lock" /\ proc'[p].pc = "idle"
        /\ out'.msg \in {"Seat is no longer available",
                        "Failed to reserve seats. Please try again."})
       => seatLock' = seatLock]_vars

\* C4 witness: a two-seat request was refused on its second seat, and its
\* first seat, which was free, carries no lock
C4_RefusedOnSecondSeat ==
  /\ out.req.op = "create_hold"
  /\ out.code = 409
  /\ out.msg = "Seat is no longer available"
  /\ Len(out.req.seats) = 2
  /\ out.seat = out.req.seats[2]
  /\ SeatKey(out.req.show, out.req.seats[1]) \notin DOMAIN seatLock
  /\ SeatKey(out.req.show, out.req.seats[2]) \in DOMAIN seatLock

\* C5: lock ownership: the lock of a user disappears, or passes to another
\* user, only when its TTL runs out or in a release step of a request of that
\* same user
C5_LockGoesByOwnerOrTTL ==
  [][\A k \in DOMAIN seatLock :
       (\/ k \notin DOMAIN seatLock'
        \/ LockOwner(seatLock'[k].value) # LockOwner(seatLock[k].value))
       => \/ seatLock[k].exp <= now'
          \/ \E p \in Procs :
               /\ proc[p].pc \in {"rh_release", "ch_comp"}
               /\ proc'[p] # proc[p]
               /\ proc[p].user = LockOwner(seatLock[k].value)]_vars

\* C6: a hold is promoted at most once: no two order rows come from one hold
C6_PromotedOnce ==
  \A a, b \in DOMAIN orders : orders[a].hold_id = orders[b].hold_id => a = b

\* C7: whenever no request is in flight, every stored hold with status HELD
\* whose expires_at has not passed has, on each of its seats, a live lock
\* whose value is exactly user_id:hold_id
C7_HeldHoldHasItsLocks ==
  (\A p \in Procs : proc[p].pc = "idle")
  => \A h \in DOMAIN holds :
       (holds[h].data.status = "HELD" /\ now <= holds[h].data.expires_at)
       => \A s \in Range(holds[h].data.seat_ids) :
            /\ SeatKey(holds[h].data.show_id, s) \in DOMAIN seatLock
            /\ seatLock[SeatKey(holds[h].data.show_id, s)].value
                 = LockValue(holds[h].data.user_id, h)

\* C8: every seat of an unexpired PAYMENT_PENDING order has a live lock owned
\* by the order's user
C8_PendingOrderKeepsLocks ==
  \A o \in DOMAIN orders :
    (orders[o].status = "PAYMENT_PENDING" /\ now <= orders[o].expires_at)
    => \A s \in Range(orders[o].seat_ids) :
         /\ SeatKey(orders[o].show_id, s) \in DOMAIN seatLock
         /\ LockOwner(seatLock[SeatKey(orders[o].show_id, s)].value)
              = orders[o].user_id

\* C9: create-hold success: a create-hold whose lock call and whose
\* store_hold call both succeeded is answered with the success, status HELD
C9_CreateHoldSucceeds ==
  (out.req.op = "create_hold" /\ out.req.hd.status = "HELD")
  => out.code = 200 /\ out.msg = "HELD"

\* C10: create-order success: a create-order by the owner of a HELD,
\* unexpired hold of an existing show is answered with the success, status
\* PAYMENT_PENDING
C10_CreateOrderSucceeds ==
  (out.req.op = "create_order" /\ out.req.pc = "co_insert")
  => out.code = 200 /\ out.msg = "PAYMENT_PENDING"

\* C11: confirm-payment success: a confirm-payment that has made the update,
\* with the coordinator reachable, is answered with the success, status
\* CONFIRMED; the row is then CONFIRMED with the ticket code "BMS" and the
\* upper-cased first 8 characters of the order id, and no seat of the order
\* has a lock of the caller
C11_ConfirmPaymentSucceeds ==
  (out.req.op = "confirm_payment" /\ out.req.pc = "cp_release" /\ faults = 0)
  => /\ out.code = 200 /\ out.msg = "CONFIRMED"
     /\ orders[out.req.order].status = "CONFIRMED"
     /\ orders[out.req.order].ticket_code = TicketCode(out.req.order)
     /\ \A s \in Range(orders[out.req.order].seat_ids) :
          SeatKey(orders[out.req.order].show_id, s) \in DOMAIN seatLock
          => LockOwner(seatLock[SeatKey(orders[out.req.order].show_id, s)].value)
               # out.req.user

\* C12: confirmation is a compare-and-set: a confirm-payment whose
\* conditional update changed no row is answered with a conflict (400 or 409)
C12_LoserGetsConflict ==
  (out.req.op = "confirm_payment" /\ out.req.pc = "cp_update")
  => out.code \in {400, 409}

\* C13: CONFIRMED is terminal: no step changes a row whose status is
\* CONFIRMED
C13_ConfirmedIsTerminal ==
  [][\A o \in DOMAIN orders :
       orders[o].status = "CONFIRMED"
       => o \in DOMAIN orders' /\ orders'[o] = orders[o]]_vars

\* C13 witness: the conditional update of a second confirm-payment has run
\* on an order that was CONFIRMED already
C13_UpdateOnConfirmedRow ==
  /\ out.req.op = "confirm_payment"
  /\ out.req.pc = "cp_update"
  /\ orders[out.req.order].status = "CONFIRMED"
  /\ orders[out.req.order].ticket_code = TicketCode(out.req.order)

\* C14: an order has a ticket code if and only if its status is CONFIRMED
C14_TicketCodeIffConfirmed ==
  \A o \in DOMAIN orders :
    orders[o].ticket_code # <<>> <=> orders[o].status = "CONFIRMED"

\* C14 witness: one order is CONFIRMED and has its code, another is
\* PAYMENT_PENDING and has none
C14_OneConfirmedOnePending ==
  \E a, b \in DOMAIN orders :
    /\ orders[a].status = "CONFIRMED" /\ orders[a].ticket_code # <<>>
    /\ orders[b].status = "PAYMENT_PENDING" /\ orders[b].ticket_code = <<>>


(***************************************************************************)
(* The service with a hold in place: the state create_hold leaves when     *)
(* user u holds seat A1 of the show from time 0 (the seat's lock and the   *)
(* HELD record, as CreateHoldLock and CreateHoldStore write them), from    *)
(* which MaxRequests further requests are made.                            *)
(***************************************************************************)
FirstHold(u) ==
  [Idle EXCEPT !.op = "create_hold", !.user = u, !.show = TheShow,
               !.seats = <<"A1">>, !.quantity = 1, !.hold = HoldIdNames[1]]

\* the holders the service is started with: a plain user id and one with a
\* colon in it
Holders == {<<"u1">>, <<"u1", "x">>}

HeldBy(u) ==
  /\ seatLock = LockSeatsScript(<<>>, TheShow, u, HoldIdNames[1], <<"A1">>,
                                HOLD_TTL_SECONDS, 0).locks
  /\ holds = StoreHold(<<>>, HoldData(FirstHold(u), 0), 0)

InitHeld ==
  /\ now = 0
  /\ \E u \in Holders : HeldBy(u)
  /\ orders = <<>>
  /\ events = {}
  /\ issued = 1
  /\ faults = 0
  /\ started = 0
  /\ refused = {}
  /\ failed = {}
  /\ proc = [p \in Procs |-> Idle]
  /\ out = NoOut

SpecHeld == InitHeld /\ [][Next]_vars

\* the state InitHeld starts from, as Spec reaches it
HoldInPlace ==
  /\ \E u \in Holders : HeldBy(u)
  /\ now = 0 /\ orders = <<>> /\ events = {} /\ issued = 1 /\ faults = 0
  /\ \A p \in Procs : proc[p] = Idle

(***************************************************************************)
(* C15: a create-hold whose seats meet the permanently unavailable seats   *)
(* or the seats of a CONFIRMED order of the show is rejected at the seat   *)
(* check: 409 when a requested seat is in a CONFIRMED order, 400           *)
(* otherwise, and the step writes no lock and no hold.                     *)
(***************************************************************************)
SeatsOfConfirmedOrders(showId) ==
  {s \in SeatIds : \E o \in DOMAIN orders :
                     /\ orders[o].status = "CONFIRMED"
                     /\ orders[o].show_id = showId
                     /\ s \in Range(orders[o].seat_ids)}

C15_UnavailableSeatsRejected ==
  [][\A p \in Procs :
       LET booked == Range(proc[p].seats) \cap SeatsOfConfirmedOrders(proc[p].show)
           broken == Range(proc[p].seats) \cap {"A5", "B10", "C8"}
       IN  (proc[p].pc = "ch_seats" /\ proc'[p] # proc[p]
            /\ booked \cup broken # {})
           => /\ proc'[p].pc = "idle"
              /\ out'.req = proc[p]
              /\ out'.code = IF booked # {} THEN 409 ELSE 400
              /\ out'.seat \in booked \cup broken
              /\ seatLock' = seatLock
              /\ holds' = holds]_vars

\* C15 witness: a create-hold was answered 409 for a seat of a CONFIRMED order
C15_RejectedAsBooked ==
  /\ out.req.op = "create_hold"
  /\ out.code = 409
  /\ out.msg = "Seats already booked"
  /\ out.seat \in SeatsOfConfirmedOrders(out.req.show)


(***************************************************************************)
(* C16: a valid create-hold for the show made at or after the show's       *)
(* start time is answered 400 "show already started", whatever seats it    *)
(* names and whether they are free, locked or unavailable; it never        *)
(* reaches the seat check and leaves every lock and hold as it was.        *)
(***************************************************************************)
C16_StartedShowRejected ==
  [][now >= GetShowById(TheShow).start_time
     => /\ \A p \in Procs : proc[p].pc = "idle" => proc'[p].pc # "ch_seats"
        /\ (/\ started' = started + 1
            /\ out'.req.op = "create_hold"
            /\ out'.req.show = TheShow
            /\ ValidateHoldRequest(TheShow, out'.req.seats, out'.req.quantity) = "")
           => /\ out'.code = 400
              /\ out'.msg = "Cannot book seats for a show that has already started"
              /\ seatLock' = seatLock
              /\ holds' = holds]_vars

\* C16 witness: the refusal was given for a seat that carries a lock
C16_RefusedWhileSeatLocked ==
  /\ out.req.op = "create_hold"
  /\ out.msg = "Cannot book seats for a show that has already started"
  /\ \E i \in 1..Len(out.req.seats) :
        SeatKey(out.req.show, out.req.seats[i]) \in DOMAIN seatLock


(***************************************************************************)
(* C17: errors are pure.  A call is answered 400, 403, 404 or 409 only     *)
(* from its first step, from the seat check or from the lock step of       *)
(* create-hold; the answering step and the steps that lead to it leave     *)
(* every seat lock, every hold record and every order row as they were.    *)
(***************************************************************************)
ErrorCodes == {400, 403, 404, 409}

C17_ErrorsArePure ==
  [][/\ (/\ out'.code \in ErrorCodes
         /\ out'.req.op \in {"create_hold", "get_hold", "release_hold",
                             "create_order", "confirm_payment"})
        => /\ out'.req.pc \in {"idle", "ch_seats", "ch_lock"}
           /\ seatLock' = seatLock
           /\ holds' = holds
           /\ orders' = orders
     /\ \A p \in Procs :
          (proc[p].pc \in {"idle", "ch_seats"} /\ proc'[p] # proc[p])
          => /\ seatLock' = seatLock
             /\ holds' = holds
             /\ orders' = orders]_vars

\* C17 witness: a caller who does not own the order was refused while a
\* lock, a hold record and an order row were there to be changed
C17_RefusedWithStateAround ==
  /\ out.req.op = "confirm_payment"
  /\ out.code = 403
  /\ DOMAIN seatLock # {}
  /\ DOMAIN holds # {}
  /\ DOMAIN orders # {}


(***************************************************************************)
(* C18: ownership enforcement.  After a caller who does not own a hold was *)
(* answered 403 on it, the owner's create-order on that hold, having       *)
(* passed the ownership, status and expiry checks with no Redis failure,   *)
(* succeeds and its order row is in the table.                             *)
(***************************************************************************)
C18_OwnerCompletesAfterRefusal ==
  (/\ out.req.op = "create_order"
   /\ out.req.pc = "co_insert"
   /\ out.req.user = out.req.hd.user_id
   /\ [hold |-> out.req.hold, order |-> <<>>] \in refused
   /\ faults = 0)
  => /\ out.code = 200
     /\ \E o \in DOMAIN orders : /\ orders[o].user_id = out.req.user
                                  /\ orders[o].seat_ids = out.req.seats

\* C18 case: the owner's create-order was answered after a caller who does
\* not own the hold had been refused on it, the hold and its lock untouched
C18_OwnerCallsAfterRefusal ==
  /\ out.req.op = "create_order"
  /\ out.req.pc = "co_insert"
  /\ [hold |-> out.req.hold, order |-> <<>>] \in refused
  /\ faults = 0
  /\ out.req.hold \in DOMAIN holds
  /\ holds[out.req.hold].data = out.req.hd
  /\ \A i \in 1..Len(out.req.seats) :
        /\ SeatKey(out.req.show, out.req.seats[i]) \in DOMAIN seatLock
        /\ seatLock[SeatKey(out.req.show, out.req.seats[i])].value
             = LockValue(out.req.user, out.req.hold)


(***************************************************************************)
(* C19: release-hold removes the hold's locks and sets it RELEASED as one  *)
(* step: a hold whose release has passed release_seats_atomic is not       *)
(* there to be read as HELD with a seat of it unlocked, and no lock        *)
(* carries the hold id of a RELEASED hold.                                 *)
(***************************************************************************)
LockedFor(h) ==
  {k \in DOMAIN seatLock : seatLock[k].value[Len(seatLock[k].value)] = h}

C19_ReleaseIsIndivisible ==
  \A h \in DOMAIN holds :
    /\ (/\ holds[h].data.status = "HELD"
        /\ \E p \in Procs : /\ proc[p].op = "release_hold"
                             /\ proc[p].pc = "rh_store"
                             /\ proc[p].hold = h)
       => \A i \in 1..Len(holds[h].data.seat_ids) :
            SeatKey(holds[h].data.show_id, holds[h].data.seat_ids[i])
              \in LockedFor(h)
    /\ holds[h].data.status = "RELEASED" => LockedFor(h) = {}

\* C19 case: the owner's release of a HELD hold has removed the hold's locks
C19_ReleaseRemovedLocks ==
  \E p \in Procs :
    /\ proc[p].op = "release_hold"
    /\ proc[p].pc = "rh_store"
    /\ proc[p].user = proc[p].hd.user_id
    /\ Len(proc[p].released) > 0
    /\ LockedFor(proc[p].hold) = {}


(***************************************************************************)
(* C20: a release-hold by the owner on a hold whose stored status is       *)
(* RELEASED, Redis answering, is rejected with 400 "Hold is already        *)
(* released" and changes no lock and no hold record, each time it is       *)
(* made; no release-hold goes on to the release step on such a hold.       *)
(***************************************************************************)
C20_ReleasedHoldRejected ==
  [][/\ (/\ started' = started + 1
         /\ out'.req.op = "release_hold"
         /\ faults' = faults
         /\ out'.req.hold \in DOMAIN holds
         /\ holds[out'.req.hold].data.status = "RELEASED"
         /\ holds[out'.req.hold].data.user_id = out'.req.user)
        => /\ out'.code = 400
           /\ out'.msg = "Hold is already released"
           /\ seatLock' = seatLock
           /\ holds' = holds
     /\ \A p \in Procs :
          (proc[p].pc = "idle" /\ proc'[p].pc = "rh_release")
          => holds[proc'[p].hold].data.status # "RELEASED"]_vars

\* C20 witness: the owner's release of a RELEASED hold was rejected
C20_RejectedAsReleased ==
  /\ out.req.op = "release_hold"
  /\ out.code = 400
  /\ out.msg = "Hold is already released"
  /\ out.req.hold \in DOMAIN holds
  /\ holds[out.req.hold].data.status = "RELEASED"
  /\ holds[out.req.hold].data.user_id = out.req.user


(***************************************************************************)
(* C21: create-order compensation.  When a create-order that reached the   *)
(* insert is answered 500 with no Redis failure, no order row was written, *)
(* the seat locks are as they were and the hold record holds the data the  *)
(* call read; and a create-order begun on a hold after an earlier          *)
(* create-order on it failed that way succeeds, its row in the table.      *)
(***************************************************************************)
C21_RetryAfterCompensation ==
  [][(/\ out'.req.op = "create_order"
      /\ out'.req.pc = "co_insert"
      /\ faults' = 0)
     => /\ out'.code = 500
           => /\ orders' = orders
              /\ seatLock' = seatLock
              /\ out'.req.hold \in DOMAIN holds'
              /\ holds'[out'.req.hold].data = out'.req.hd
        /\ out'.req.retry
           => /\ out'.code = 200
              /\ \E o \in DOMAIN orders' :
                    /\ orders'[o].user_id = out'.req.user
                    /\ orders'[o].seat_ids = out'.req.seats]_vars

\* C21 case: a create-order begun after an earlier one on the same hold had
\* failed was answered 500, the hold record and the locks of its seats in place
C21_RetryFailedToo ==
  /\ out.req.op = "create_order"
  /\ out.req.pc = "co_insert"
  /\ out.code = 500
  /\ faults = 0
  /\ out.req.retry
  /\ out.req.hold \in DOMAIN holds
  /\ holds[out.req.hold].data = out.req.hd
  /\ \A i \in 1..Len(out.req.seats) :
        SeatKey(out.req.show, out.req.seats[i]) \in DOMAIN seatLock


(***************************************************************************)
(* C22: a create-hold whose lock call fails is answered 500 and writes no  *)
(* lock, no hold record and no event; a create-hold whose store_hold       *)
(* fails (the one Redis failure of the run) is answered 500 with no lock   *)
(* carrying its hold id left, no hold record and no event.                 *)
(***************************************************************************)
C22_FailedCreateHoldLeavesNothing ==
  [][(out'.req.op = "create_hold" /\ out'.code = 500)
     => /\ out'.req.pc = "ch_lock"
           => /\ seatLock' = seatLock
              /\ holds' = holds
              /\ events' = events
        /\ (out'.req.pc = "ch_comp" /\ faults' = 1)
           => /\ \A k \in DOMAIN seatLock' :
                   seatLock'[k].value[Len(seatLock'[k].value)] # out'.req.hold
              /\ out'.req.hold \notin DOMAIN holds'
              /\ events' = events]_vars

\* C22 case: store_hold failed after the locks were taken and the
\* compensation was run with Redis answering
C22_CompensatedAfterStoreFailure ==
  /\ out.req.op = "create_hold"
  /\ out.req.pc = "ch_comp"
  /\ out.code = 500
  /\ faults = 1


(***************************************************************************)
(* C23: hold expiry frees seats.  Started with a hold of seat A1 that its  *)
(* holder leaves alone: once HOLD_TTL_SECONDS have passed no lock carries  *)
(* that hold's id, a seatmap does not list A1 as held, every lock there is *)
(* ends within HOLD_TTL_SECONDS, and a create-hold for A1 by another user, *)
(* made before the show starts with Redis answering, succeeds.             *)
(***************************************************************************)
C23_ExpiredHoldFreesSeats ==
  /\ \A k \in DOMAIN seatLock : seatLock[k].exp <= now + HOLD_TTL_SECONDS
  /\ (now >= HOLD_TTL_SECONDS /\ started <= 1)
     => /\ LockedFor(HoldIdNames[1]) = {}
        /\ (out.req.op = "get_seatmap" /\ out.code = 200)
           => "A1" \notin out.req.view.heldSeatIds
        /\ (/\ out.req.op = "create_hold"
            /\ out.req.user = <<"u2">>
            /\ out.req.seats = <<"A1">>
            /\ now < GetShowById(TheShow).start_time
            /\ faults = 0)
           => /\ out.code = 200
              /\ out.req.hold \in DOMAIN holds
              /\ holds[out.req.hold].data.status = "HELD"

\* C23 case: after the first hold ran out another user's create-hold for
\* seat A1 took the lock and stored its HELD record
C23_SeatTakenAfterExpiry ==
  /\ now >= HOLD_TTL_SECONDS
  /\ started = 1
  /\ out.req.op = "create_hold"
  /\ out.req.user = <<"u2">>
  /\ out.req.seats = <<"A1">>
  /\ out.code # 0
  /\ faults = 0
  /\ LockedFor(HoldIdNames[1]) = {}
  /\ LockedFor(out.req.hold) = {SeatKey(TheShow, "A1")}
  /\ out.req.hold \in DOMAIN holds
  /\ holds[out.req.hold].data.status = "HELD"


(***************************************************************************)
(* C24: order expiry.  Requests keep being served and the clock keeps      *)
(* running for as long as the bounds allow (weak fairness of the           *)
(* next-state relation).  A PAYMENT_PENDING order whose expires_at has     *)
(* passed eventually has status EXPIRED.                                   *)
(***************************************************************************)
SpecOrdersFair == SpecOrders /\ WF_vars(NextOrders)

PendingPastExpiry(o) ==
  /\ o \in DOMAIN orders
  /\ orders[o].status = "PAYMENT_PENDING"
  /\ now > orders[o].expires_at

LockedSeats(showId) == {k[2] : k \in {x \in DOMAIN seatLock : x[1] = showId}}

C26_SeatmapComposition ==
  (out.req.op = "get_seatmap" /\ out.code = 200)
  => /\ out.req.view.unavailableSeatIds
          = SeatsOfConfirmedOrders(out.req.show) \cup {"A5", "B10", "C8"}
     /\ out.req.view.heldSeatIds = LockedSeats(out.req.show)

\* C26 case: a seatmap was served while an order of the show was CONFIRMED
C26_SeatmapAfterBooking ==
  /\ out.req.op = "get_seatmap"
  /\ out.code = 200
  /\ SeatsOfConfirmedOrders(out.req.show) # {}


C28_EventPerSuccess ==
  [][/\ Cardinality(events' \ events) <= 1
     /\ events' # events => out'.code = 200 /\ out'.req.sent = "sent"
     /\ (out'.code = 200 /\ out'.req.op = "confirm_payment")
        => /\ out'.req.sent \in {"sent", "failed"}
           /\ out'.req.sent = "sent"
              => events' = events \cup {<<"order.confirmed", out'.req.order>>}
           /\ orders[out'.req.order].status = "CONFIRMED"
     /\ (out'.code = 200 /\ out'.req.op = "create_order")
        => /\ out'.req.sent \in {"sent", "failed"}
           /\ out'.req.sent = "sent"
              => \E o \in DOMAIN orders' :
                    /\ events' = events \cup {<<"order.created", o>>}
                    /\ orders'[o].status = "PAYMENT_PENDING"
     /\ (out'.code = 200 /\ out'.req.op = "create_hold")
        => /\ out'.req.sent \in {"sent", "failed"}
           /\ out'.req.sent = "sent"
              => events' = events \cup {<<"hold.created", out'.req.hold>>}
     /\ (out'.code = 200 /\ out'.req.op = "release_hold")
        => /\ out'.req.sent \in {"sent", "failed"}
           /\ out'.req.sent = "sent"
              => events' = events \cup {<<"hold.released", out'.req.hold>>}
     /\ out'.code >= 400
        => events' = events /\ out'.req.sent = ""]_vars

\* C28 case: a confirm-payment was answered 200 with its order.confirmed
\* event on the queue and its row CONFIRMED
C28_ConfirmedEventOut ==
  /\ out.req.op = "confirm_payment"
  /\ out.code = 200
  /\ out.req.sent = "sent"
  /\ <<"order.confirmed", out.req.order>> \in events
  /\ orders[out.req.order].status = "CONFIRMED"


(***************************************************************************)
(* C29: a failure to publish the event does not change the outcome.  A     *)
(* call whose send_event failed is answered 200 as it would have been,     *)
(* the step changes no order row and no hold record, the row of a          *)
(* confirm-payment stays CONFIRMED and the locks it released stay          *)
(* released.                                                               *)
(***************************************************************************)
C29_PublishFailureKeepsOutcome ==
  [][out'.req.sent = "failed"
     => /\ out'.code = 200
        /\ events' = events
        /\ holds' = holds
        /\ out'.req.op = "confirm_payment"
           => /\ out'.msg = "CONFIRMED"
              /\ orders' = orders
              /\ orders'[out'.req.order].status = "CONFIRMED"
              /\ \A i \in 1..Len(out'.req.released) :
                    SeatKey(out'.req.show, out'.req.released[i])
                      \notin DOMAIN seatLock']_vars

\* C29 case: a confirm-payment whose event could not be published was
\* answered 200, its row CONFIRMED, its seat lock released
C29_ConfirmedWithoutEvent ==
  /\ out.req.op = "confirm_payment"
  /\ out.req.sent = "failed"
  /\ out.code = 200
  /\ orders[out.req.order].status = "CONFIRMED"
  /\ <<"order.confirmed", out.req.order>> \notin events
  /\ out.req.released # <<>>


(***************************************************************************)
(* C30: get-hold is a read-only view.  A get-hold step changes no hold     *)
(* record and no seat lock; answered 200, it is the owner's, and its       *)
(* status is EXPIRED when the time is past the record's expires_at and     *)
(* the stored status, HELD or RELEASED, otherwise.                         *)
(***************************************************************************)
C30_GetHoldIsReadOnly ==
  [][out'.req.op = "get_hold"
     => /\ holds' = holds
        /\ seatLock' = seatLock
        /\ out'.code = 200
           => /\ out'.req.hold \in DOMAIN holds
              /\ holds[out'.req.hold].data.user_id = out'.req.user
              /\ now > holds[out'.req.hold].data.expires_at
                 => out'.msg = "EXPIRED"
              /\ now <= holds[out'.req.hold].data.expires_at
                 => /\ out'.msg = holds[out'.req.hold].data.status
                    /\ out'.msg \in {"HELD", "RELEASED"}]_vars

\* C30 case: the owner was shown as EXPIRED a record that is still stored,
\* past its expires_at, with its own status
C30_ShownExpired ==
  /\ out.req.op = "get_hold"
  /\ out.code = 200
  /\ out.msg = "EXPIRED"
  /\ out.req.hold \in DOMAIN holds
  /\ holds[out.req.hold].data.status \in {"HELD", "RELEASED"}
  /\ now > holds[out.req.hold].data.expires_at


(***************************************************************************)
(* C31: create-hold validation.  A create-hold whose seatIds is empty,     *)
(* names a seat twice, has a quantity other than its length or is longer   *)
(* than MAX_SEATS_PER_BOOKING is answered 400 before any call to Redis or  *)
(* the database, so that no running create-hold, no hold record and no     *)
(* order row names a seat twice.                                           *)
(***************************************************************************)
DuplicateFree(seats) == Cardinality(Range(seats)) = Len(seats)

WellFormedSeats(seats, quantity) ==
  /\ Len(seats) > 0
  /\ DuplicateFree(seats)
  /\ quantity = Len(seats)
  /\ Len(seats) <= MAX_SEATS_PER_BOOKING

C31_MalformedHoldRequestRejected ==
  [][/\ (/\ out'.req.op = "create_hold"
         /\ ~WellFormedSeats(out'.req.seats, out'.req.quantity))
        => /\ out'.code = 400
           /\ out'.req.pc = "idle"
           /\ UNCHANGED <<seatLock, holds, orders, events>>
     /\ \A p \in Procs :
          (proc'[p].op = "create_hold" /\ proc'[p].pc # "idle")
          => WellFormedSeats(proc'[p].seats, proc'[p].quantity)
     /\ \A h \in DOMAIN holds' : DuplicateFree(holds'[h].data.seat_ids)
     /\ \A o \in DOMAIN orders' : DuplicateFree(orders'[o].seat_ids)]_vars

\* C31 case: a hold record is stored whose seat_ids names a seat twice
C31_HoldWithSeatTwice ==
  \E h \in DOMAIN holds :
    /\ ~DuplicateFree(holds[h].data.seat_ids)
    /\ holds[h].data.quantity = Len(holds[h].data.seat_ids)
    /\ holds[h].data.status = "HELD"


(***************************************************************************)
(* C32: seat lock owner immutability.  While the lock of a seat exists     *)
(* its value userId:holdId does not change: no step, and so no acquire by  *)
(* the same user under another hold id, writes another value over a lock   *)
(* that is in place.                                                       *)
(***************************************************************************)
C32_LockOwnerNeverChanges ==
  [][\A k \in DOMAIN seatLock \cap DOMAIN seatLock' :
       seatLock'[k].value = seatLock[k].value]_vars

\* C32 case: the seat of a stored HELD hold carries the lock value of
\* another hold of the same user
C32_LockOfLaterHold ==
  \E h \in DOMAIN holds, k \in DOMAIN seatLock :
    /\ holds[h].data.status = "HELD"
    /\ k = SeatKey(holds[h].data.show_id, holds[h].data.seat_ids[1])
    /\ seatLock[k].value # LockValue(holds[h].data.user_id, h)
    /\ ExistingUserId(seatLock[k].value) = holds[h].data.user_id


(***************************************************************************)
(* C33: a hold record and its expires_at age together.  The key of every   *)
(* stored hold record runs out at the record's expires_at: its remaining   *)
(* TTL is expires_at - now, also after release-hold has rewritten it.      *)
(***************************************************************************)
C33_RecordExpiresAtExpiresAt ==
  \A h \in DOMAIN holds : holds[h].exp - now = holds[h].data.expires_at - now

\* C33 case: a RELEASED record outlives its expires_at
C33_ReleasedRecordLivesOn ==
  \E h \in DOMAIN holds :
    /\ holds[h].data.status = "RELEASED"
    /\ holds[h].exp > holds[h].data.expires_at


(***************************************************************************)
(* The lock script alone: lock_seats_atomic called with any user id, hold  *)
(* id and seat list on the locks its earlier calls have left, while time   *)
(* passes.                                                                 *)
(***************************************************************************)
\* redis_service.lock_seats_atomic: the script is run and its reply decoded
LockSeatsAtomic(u, holdId, seats) ==
  /\ LET r == LockSeatsScript(seatLock, TheShow, u, holdId, seats,
                              HOLD_TTL_SECONDS, now)
         req == [Idle EXCEPT !.op = "lock_seats_atomic", !.user = u,
                             !.show = TheShow, !.hold = holdId, !.seats = seats]
     IN  /\ seatLock' = r.locks
         /\ out' = Response(req, IF r.reply.success THEN 200 ELSE 409,
                            r.reply.error, r.reply.seat)
  /\ UNCHANGED <<now, holds, orders, events, issued, faults, started, refused,
                 failed, proc>>

NextAcquire ==
  \/ \E u \in UserIds, h \in HoldIdInputs, seats \in SeatLists :
        LockSeatsAtomic(u, h, seats)
  \/ Tick

SpecAcquire == Init /\ [][NextAcquire]_vars

(***************************************************************************)
(* C34: acquire is idempotent for its owner.  A lock call with the user    *)
(* id and hold id whose value is on every seat it names is answered with   *)
(* success, leaves the value of every lock as it was, sets the TTL of      *)
(* each of its locks to the full HOLD_TTL_SECONDS, and locks no seat that  *)
(* was not locked.                                                         *)
(***************************************************************************)
OwnsAll(locks, showId, u, holdId, seats) ==
  \A i \in 1..Len(seats) :
    /\ SeatKey(showId, seats[i]) \in DOMAIN locks
    /\ locks[SeatKey(showId, seats[i])].value = LockValue(u, holdId)

C34_AcquireIdempotent ==
  [][(/\ out'.req.op = "lock_seats_atomic"
      /\ OwnsAll(seatLock, out'.req.show, out'.req.user, out'.req.hold,
                 out'.req.seats))
     => /\ out'.code = 200
        /\ DOMAIN seatLock' = DOMAIN seatLock
        /\ \A k \in DOMAIN seatLock : seatLock'[k].value = seatLock[k].value
        /\ \A i \in 1..Len(out'.req.seats) :
              seatLock'[SeatKey(out'.req.show, out'.req.seats[i])].exp
                = now + HOLD_TTL_SECONDS]_vars

\* C34 case: the owner of a lock repeated its call on the seat at a later
\* time and was refused, the lock left as it was
C34_OwnerRefused ==
  /\ out.req.op = "lock_seats_atomic"
  /\ out.req.seats # <<>>
  /\ OwnsAll(seatLock, out.req.show, out.req.user, out.req.hold, out.req.seats)
  /\ out.code = 409
  /\ out.msg = "SEAT_TAKEN"


(***************************************************************************)
(* C35: no order is moved to CONFIRMED at a time later than its            *)
(* expires_at, however the passage of time falls between the expiry check  *)
(* of confirm-payment and its conditional update.                          *)
(***************************************************************************)
C35_NoConfirmationPastExpiry ==
  [][\A o \in DOMAIN orders \cap DOMAIN orders' :
       (orders[o].status # "CONFIRMED" /\ orders'[o].status = "CONFIRMED")
       => now' <= orders[o].expires_at]_vars

\* C35 case: a confirm-payment that passed its expiry check stands before
\* its update of a PAYMENT_PENDING order whose expires_at has passed
C35_UpdateDuePastExpiry ==
  \E p \in Procs :
    /\ proc[p].op = "confirm_payment"
    /\ proc[p].pc = "cp_update"
    /\ orders[proc[p].order].status = "PAYMENT_PENDING"
    /\ now > orders[proc[p].order].expires_at


(***************************************************************************)
(* C36: create-order and its hold.  A create-order goes on to the insert   *)
(* only with a hold that is stored, is the caller's, is HELD and has not   *)
(* passed its expires_at, and only such a call adds an order row;          *)
(* otherwise, Redis answering, it is answered 404 for a hold that is not   *)
(* stored, else 403 for a hold of another user, else 400 for a hold that   *)
(* is not HELD, else 400 for an expired hold, and the orders table is      *)
(* left as it was.                                                         *)
(***************************************************************************)
C36_CreateOrderPrecedence ==
  [][/\ \A p \in Procs :
          (proc[p].pc = "idle" /\ proc'[p].pc = "co_insert")
          => /\ proc'[p].hold \in DOMAIN holds
             /\ holds[proc'[p].hold].data.user_id = proc'[p].user
             /\ holds[proc'[p].hold].data.status = "HELD"
             /\ now <= holds[proc'[p].hold].data.expires_at
     /\ \A o \in DOMAIN orders' \ DOMAIN orders :
          /\ out'.req.op = "create_order"
          /\ out'.req.pc = "co_insert"
     /\ (out'.req.op = "create_order" /\ out'.req.pc = "idle"
           /\ faults' = faults)
        => LET h == out'.req.hold
               u == out'.req.user
           IN  /\ orders' = orders
               /\ out'.code \in {400, 403, 404}
               /\ IF h \notin DOMAIN holds
                  THEN out'.code = 404
                  ELSE IF holds[h].data.user_id # u
                  THEN out'.code = 403
                  ELSE IF holds[h].data.status # "HELD"
                  THEN /\ out'.code = 400
                       /\ out'.msg = "Cannot create order from hold"
                  ELSE IF now > holds[h].data.expires_at
                  THEN /\ out'.code = 400
                       /\ out'.msg = "Hold has expired"
                  ELSE out'.msg = "Show not found"]_vars

\* C36 case: a create-order on a RELEASED hold of another user was answered
\* 403
C36_ForbiddenBeforeState ==
  /\ out.req.op = "create_order"
  /\ out.code = 403
  /\ out.req.hold \in DOMAIN holds
  /\ holds[out.req.hold].data.status = "RELEASED"
  /\ holds[out.req.hold].data.user_id # out.req.user


(***************************************************************************)
(* C37: lock release is scoped to its hold.  The lock release of           *)
(* release-hold, of the create-hold compensation and of confirm-payment    *)
(* removes no lock that carries the value of another hold which is stored  *)
(* HELD and has not expired.                                               *)
(***************************************************************************)
C37_ReleaseScopedToHold ==
  [][\A p \in Procs :
       (proc'[p] # proc[p] /\ proc[p].pc \in {"rh_release", "ch_comp", "cp_release"})
       => \A k \in DOMAIN seatLock \ DOMAIN seatLock' :
            \A h \in DOMAIN holds \ {proc[p].hold} :
              ~(/\ holds[h].data.status = "HELD"
                /\ now <= holds[h].data.expires_at
                /\ seatLock[k].value = LockValue(holds[h].data.user_id, h))]_vars

\* C37 case: a release-hold has removed the lock of a seat that another
\* hold of the same user, HELD and unexpired, names
C37_OtherHoldLostItsLock ==
  \E p \in Procs, h \in DOMAIN holds :
    /\ proc[p].op = "release_hold"
    /\ proc[p].pc = "rh_store"
    /\ h # proc[p].hold
    /\ holds[h].data.status = "HELD"
    /\ holds[h].data.user_id = proc[p].user
    /\ now <= holds[h].data.expires_at
    /\ \E i \in 1..Len(proc[p].released) :
          /\ proc[p].released[i] \in Range(holds[h].data.seat_ids)
          /\ SeatKey(proc[p].show, proc[p].released[i]) \notin DOMAIN seatLock


(***************************************************************************)
(* C38: failure atomicity of the hold operations.  When a create-hold is   *)
(* answered with an error, no hold record and no seat lock under the hold  *)
(* id of that call is left; when a release-hold that read its hold as      *)
(* HELD is answered with an error, the record is still HELD and each of    *)
(* its seats still carries its lock.                                       *)
(***************************************************************************)
C38_HoldOperationsFailClean ==
  [][/\ (out'.req.op = "create_hold" /\ out'.code >= 400 /\ out'.req.hold # "")
        => /\ out'.req.hold \notin DOMAIN holds'
           /\ \A k \in DOMAIN seatLock' :
                seatLock'[k].value # LockValue(out'.req.user, out'.req.hold)
     /\ (out'.req.op = "release_hold" /\ out'.code >= 400
           /\ out'.req.hd.status = "HELD")
        => /\ out'.req.hold \in DOMAIN holds'
           /\ holds'[out'.req.hold].data.status = "HELD"
           /\ OwnsAll(seatLock', out'.req.show, out'.req.user, out'.req.hold,
                      out'.req.seats)]_vars

\* C38 case: a create-hold was answered 500 and its HELD record and its
\* lock are in place
C38_FailedCreateHoldLeftState ==
  /\ out.req.op = "create_hold"
  /\ out.code = 500
  /\ out.req.hold \in DOMAIN holds
  /\ holds[out.req.hold].data.status = "HELD"
  /\ out.req.seats # <<>>
  /\ OwnsAll(seatLock, out.req.show, out.req.user, out.req.hold, out.req.seats)


(***************************************************************************)
(* C39: failure atomicity of the order operations.  A create-order         *)
(* answered with an error has added no order row; a confirm-payment        *)
(* answered with an error is not one whose update moved the order to       *)
(* CONFIRMED, also when the lock release, the cache invalidation or the    *)
(* event after the update fails; and a confirm-payment answered 200 has    *)
(* its order CONFIRMED.                                                    *)
(***************************************************************************)
C39_OrderOperationsFailClean ==
  [][/\ (out'.req.op = "create_order" /\ out'.code >= 400)
        => orders' = orders
     /\ (out'.req.op = "confirm_payment" /\ out'.code >= 400)
        => /\ orders' = orders
           /\ out'.req.pc # "cp_release"
     /\ (out'.req.op = "confirm_payment" /\ out'.code = 200)
        => orders'[out'.req.order].status = "CONFIRMED"]_vars

\* C39 case: the confirm-payment whose update confirmed the order was
\* answered 500
C39_ConfirmedButAnswered500 ==
  /\ out.req.op = "confirm_payment"
  /\ out.req.pc = "cp_release"
  /\ out.code = 500
  /\ orders[out.req.order].status = "CONFIRMED"
  /\ orders[out.req.order].ticket_code = TicketCode(out.req.order)


(***************************************************************************)
(* POST /holds as seats.lambda_handler routes it: seats.create_hold, the   *)
(* second handler of the route.  Next with this handler added is the       *)
(* system in which both Lambdas answer.                                    *)
(***************************************************************************)
\* seats.py lines 100-156: validate, get_show_by_id, uuid4, answer HELD;
\* no call to Redis
SeatsCreateHold(p, u, showId, seats, quantity) ==
  /\ Free(p)
  /\ LET invalid == ValidateHoldRequest(showId, seats, quantity)
         show == GetShowById(showId)
         req == [Idle EXCEPT !.op = "seats_create_hold", !.user = u,
                             !.show = showId, !.seats = seats,
                             !.quantity = quantity]
     IN  IF invalid # ""
         THEN Returns(p, req, 400, invalid, "") /\ UNCHANGED issued
         ELSE IF ~show.found
         THEN Returns(p, req, 404, "Show not found", "") /\ UNCHANGED issued
         ELSE /\ issued < Len(HoldIdNames)
              /\ issued' = issued + 1
              /\ Returns(p, [req EXCEPT !.hold = HoldIdNames[issued + 1]],
                         200, "HELD", "")
  /\ UNCHANGED <<now, seatLock, holds, orders, events, faults>>

NextSeats ==
  \/ Next
  \/ \E p \in Procs, u \in UserIds, showId \in ShowIds, seats \in SeatLists,
        d \in {0, 1} : SeatsCreateHold(p, u, showId, seats, Len(seats) + d)

SpecSeats == Init /\ [][NextSeats]_vars

(***************************************************************************)
(* C40: a POST /holds answered 200 with status HELD, by either handler of  *)
(* the route, has its hold record stored and, on each seat it returns, a   *)
(* lock with the caller's user id and its hold id, at the time of the      *)
(* answer.                                                                 *)
(***************************************************************************)
C40_HeldAnswerHasHold ==
  (/\ out.req.op \in {"create_hold", "seats_create_hold"}
   /\ out.code = 200
   /\ out.msg = "HELD")
  => /\ out.req.hold \in DOMAIN holds
     /\ holds[out.req.hold].data.status = "HELD"
     /\ OwnsAll(seatLock, out.req.show, out.req.user, out.req.hold,
                out.req.seats)

\* C40 case: POST /holds was answered 200 HELD for a seat while no hold
\* record and no lock of the answered hold id exists
C40_HeldAnswerWithoutHold ==
  /\ out.req.op = "seats_create_hold"
  /\ out.code = 200
  /\ out.msg = "HELD"
  /\ out.req.seats # <<>>
  /\ out.req.hold \notin DOMAIN holds
  /\ \A k \in DOMAIN seatLock :
        seatLock[k].value # LockValue(out.req.user, out.req.hold)

=============================================================================
